---- MODULE Spec2Model ----
(***************************************************************************)
(* A model of the embedding ingestion pipeline of ingestion.ipynb: the     *)
(* four text files are read, concatenated into df_combined, the OpenAI     *)
(* credential is checked, get_embeddings retrieves one vector per text     *)
(* with an unbounded fixed-delay retry loop, the vectors are merged into   *)
(* df_combined and the frame is pickled.                                   *)
(* The notebook is executed top to bottom; an uncaught exception stops     *)
(* the run (pc = "aborted").                                               *)
(***************************************************************************)
EXTENDS Integers, Sequences, FiniteSets, TLC

\* ------------------------------------------------------------------ bounds
\* The largest number of lines the four files hold together.
MaxRecords == 2
\* The history counters fails / waits saturate at MaxFails, attempts at
\* MaxFails + 1 and calls at MaxCalls: the retry loop itself is unbounded.
MaxFails == 2
MaxCalls == 3

\* --------------------------------------------------------------- constants
\* Mutant: the delay grows to 10 seconds.
LongerDelay == 5 * 2

\* time.sleep(5)
RetryDelay == 5

\* The file -> label mapping, in load order.
SourceOrder == <<"goats", "gravity", "blackholes", "invasivegoats">>
Sources == {SourceOrder[k] : k \in 1..Len(SourceOrder)}

\* envVars = ['OPENAI_API_KEY']
envVars == <<"OPENAI_API_KEY">>

\* The lines a file may hold, the vectors the service may return.
Texts == {"t1", "t2"}
Vectors == {"v1", "v2"}

\* A frame that has no openaiEmbeddings column yet; a cell pandas filled in.
NoCol == "NoCol"
NaN == "NaN"
\* No file at data/text.pkl; a file left there by an earlier run.
NoFile == [kind |-> "absent"]
OldFile == [kind |-> "old"]

VARIABLES
  pc,                \* the statement the notebook executes next
  err,               \* the exception that stopped the run ("none" if none)
  docs,              \* file system: source -> the lines of docs/<source>.txt
  readable,          \* file system: source -> the file can be opened
  dotenv,            \* what the .env file holds
  environ,           \* os.environ: the names defined
  nread,             \* how many read_file calls have returned
  lines,             \* goats_lines, gravity_lines, ... (by source)
  df_combined,       \* the frame: a sequence of rows
  text_list,         \* get_embeddings' parameter
  idx,               \* position of the for loop in text_list (1-based, 0 before)
  text,              \* the for loop's variable
  done,              \* the while loop's flag
  embedding_list,    \* get_embeddings' local list
  embedding_results, \* the value get_embeddings returned
  outfile,           \* file system: the content of data/text.pkl
  calls,             \* history: service calls made (saturating)
  attempts,          \* history: calls made for the current text (saturating)
  fails,             \* history: failed calls for the current text (saturating)
  waits,             \* history: sleeps for the current text (saturating)
  delay,             \* history: seconds slept since the last service call
  lastCall,          \* history: the last service call and its outcome
  svcLog,            \* history: per position, its successful call (text, vector)
  writes,            \* history: number of to_pickle writes
  hadFile            \* history: data/text.pkl existed when the run began

vars == <<pc, err, docs, readable, dotenv, environ, nread, lines, df_combined,
          text_list, idx, text, done, embedding_list, embedding_results,
          outfile, calls, attempts, fails, waits, delay, lastCall, svcLog,
          writes, hadFile>>

\* ----------------------------------------------------------------- helpers
RECURSIVE SeqsUpTo(_, _)
SeqsUpTo(S, n) ==
  IF n = 0 THEN {<<>>}
  ELSE LET shorter == SeqsUpTo(S, n - 1)
       IN shorter \cup {Append(s, x) : s \in {q \in shorter : Len(q) = n - 1}, x \in S}

Sat(n, cap) == IF n < cap THEN n + 1 ELSE cap

RECURSIVE TotalLines(_, _)
TotalLines(d, k) == IF k = 0 THEN 0 ELSE TotalLines(d, k - 1) + Len(d[SourceOrder[k]])

NoCall == [idx |-> 0, text |-> "none", outcome |-> "none", vec |-> "none"]

\* pd.DataFrame({'type': label, 'text': ls}): the scalar label is broadcast.
DataFrame(label, ls) ==
  [k \in 1..Len(ls) |-> [type |-> label, text |-> ls[k], openaiEmbeddings |-> NoCol]]

\* Mutant: the frames are concatenated last source first.
RECURSIVE ConcatLastFirst(_, _)
ConcatLastFirst(ls, k) ==
  IF k = 0 THEN <<>>
  ELSE DataFrame(SourceOrder[k], ls[SourceOrder[k]]) \o ConcatLastFirst(ls, k - 1)

\* pd.concat([...]).reset_index(drop=True): the frames' rows, in list order.
RECURSIVE Concat(_, _)
Concat(ls, k) ==
  IF k = 0 THEN <<>>
  ELSE Concat(ls, k - 1) \o DataFrame(SourceOrder[k], ls[SourceOrder[k]])

\* df['text']
TextColumn(df) == [k \in 1..Len(df) |-> df[k].text]

\* ------------------------------------------------------- modelled operators
\* load_dotenv('.env', override=True): the names the file defines; the call
\* returns False when the file is absent or defines nothing.
DotenvVars(file) ==
  CASE file = "haskey" -> {"OPENAI_API_KEY"}
    [] file = "nokey" -> {"OTHER_VAR"}
    [] OTHER -> {}

load_dotenv(file) == DotenvVars(file) # {}

\* Mutant: the environment check finds nothing missing.
MissingNothing(env) == <<>>

\* for var in envVars: if var not in os.environ: missing.append(var)
Missing(env) == SelectSeq(envVars, LAMBDA var : var \notin env)

\* Mutant: the vector is put at the front of the list.
AppendAtFront(list, vec) == <<vec>> \o list

\* embedding_list.append(response['data'][0]['embedding'])
AppendEmbedding(list, vec) == Append(list, vec)

\* Mutant: the loop condition ignores done.
WhileTestIgnoresDone(d) == "call"

\* Mutant: the loop condition is inverted (while done).
WhileTestInverted(d) == IF d THEN "call" ELSE "for"

\* while not done: where control goes once the loop condition is tested
WhileTest(d) == IF d THEN "for" ELSE "call"

\* Mutant: the clause catches the service's exceptions only.
CaughtServiceErrorsOnly(how) == how = "raised"

\* except Exception as e: the failures of the try block the clause catches
\* (the service's errors and KeyError/IndexError/TypeError are all Exceptions)
Caught(how) == TRUE

\* Mutant: the except clause gives the text up (done = True).
GiveUpAfterException(d) == TRUE

\* the except clause leaves done as it was
DoneAfterException(d) == d

\* for text in text_list: the position the loop moves to
NextPosition(i) == i + 1

\* Mutant: the values are aligned from the last row backwards.
SetColumnReversed(df, values) ==
  IF Len(values) # Len(df)
  THEN [ok |-> FALSE, df |-> df]
  ELSE [ok |-> TRUE,
        df |-> [k \in 1..Len(df) |->
                 [df[k] EXCEPT !.openaiEmbeddings = values[Len(df) + 1 - k]]]]

\* df['openaiEmbeddings'] = values (pandas DataFrame.__setitem__ with a list):
\* a frame with no rows takes its index from a non-empty value and fills the
\* other columns with NaN; otherwise the lengths must match (ValueError).
SetColumn(df, values) ==
  IF Len(df) = 0 /\ Len(values) > 0
  THEN [ok |-> TRUE,
        df |-> [k \in 1..Len(values) |->
                 [type |-> NaN, text |-> NaN, openaiEmbeddings |-> values[k]]]]
  ELSE IF Len(values) # Len(df)
  THEN [ok |-> FALSE, df |-> df]
  ELSE [ok |-> TRUE,
        df |-> [k \in 1..Len(df) |->
                 [df[k] EXCEPT !.openaiEmbeddings = values[k]]]]

\* Mutant: the file is opened for exclusive creation; an existing file stays.
to_pickleKeepsExisting(df, old) ==
  IF old = NoFile
  THEN [kind |-> "DataFrame",
        type |-> [k \in 1..Len(df) |-> df[k].type],
        text |-> [k \in 1..Len(df) |-> df[k].text],
        openaiEmbeddings |-> [k \in 1..Len(df) |-> df[k].openaiEmbeddings]]
  ELSE old

\* df.to_pickle(path): the file is replaced by the pickled frame, which holds
\* the frame's columns (one value list per column, in index order).
to_pickle(df, old) ==
  [kind |-> "DataFrame",
   type |-> [k \in 1..Len(df) |-> df[k].type],
   text |-> [k \in 1..Len(df) |-> df[k].text],
   openaiEmbeddings |-> [k \in 1..Len(df) |-> df[k].openaiEmbeddings]]

\* pd.read_pickle(path): the frame is rebuilt from the pickled columns; a
\* file that holds no pickled frame cannot be loaded.
read_pickle(file) ==
  IF file.kind = "DataFrame"
  THEN [k \in 1..Len(file.text) |->
         [type |-> file.type[k], text |-> file.text[k],
          openaiEmbeddings |-> file.openaiEmbeddings[k]]]
  ELSE <<>>

\* Mutant: the rows are grouped by their text.
groupby_text_count(df) ==
  [g \in {df[k].text : k \in 1..Len(df)} |->
    [text |-> Cardinality({k \in 1..Len(df) : df[k].text = g /\ df[k].text # NaN}),
     openaiEmbeddings |->
       Cardinality({k \in 1..Len(df) : df[k].text = g /\ df[k].openaiEmbeddings # NaN})]]

\* df.groupby('type').count(): one group per label that occurs, and per
\* group the number of non-null cells of every other column (rows whose
\* label is NaN belong to no group).
groupby_type_count(df) ==
  [g \in {df[k].type : k \in 1..Len(df)} \ {NaN} |->
    [text |-> Cardinality({k \in 1..Len(df) : df[k].type = g /\ df[k].text # NaN}),
     openaiEmbeddings |->
       Cardinality({k \in 1..Len(df) : df[k].type = g /\ df[k].openaiEmbeddings # NaN})]]

\* Mutant: an unreadable file is read as an empty file.
read_fileSkipsUnreadable(s, fs, ok) == [ok |-> TRUE, lines |-> IF ok[s] THEN fs[s] ELSE <<>>]

\* read_file(file_path): open(...) raises for a file that cannot be opened,
\* otherwise f.readlines() returns the file's lines.
read_file(s, fs, ok) == [ok |-> ok[s], lines |-> IF ok[s] THEN fs[s] ELSE <<>>]

\* Mutant: a response that cannot be unpacked leaves a placeholder in the list.
PlaceholderOnMalformed(list, how) == IF how = "malformed" THEN Append(list, "none") ELSE list

\* embedding_list.append(response[...]) when the try block raises: the
\* argument is evaluated before append is called, so nothing is appended.
ListAfterFailure(list, how) == list

\* Mutant: the delay grows with the number of failed attempts.
EscalatingBackoff(n) == RetryDelay * n

\* time.sleep(5) after the n-th failed attempt for a text
SleepSeconds(n) == RetryDelay

\* -------------------------------------------------------------------- Init
InputDocs ==
  {d \in [Sources -> SeqsUpTo(Texts, MaxRecords)] :
     TotalLines(d, Len(SourceOrder)) <= MaxRecords}

InitCommon ==
  /\ err = "none"
  /\ text_list = <<>>
  /\ idx = 0
  /\ text = "none"
  /\ done = FALSE
  /\ embedding_list = <<>>
  /\ calls = 0
  /\ attempts = 0
  /\ fails = 0
  /\ waits = 0
  /\ delay = 0
  /\ lastCall = NoCall
  /\ svcLog = <<>>
  /\ writes = 0

Init ==
  /\ InitCommon
  /\ pc = "read"
  /\ docs \in InputDocs
  /\ readable \in [Sources -> BOOLEAN]
  /\ dotenv \in {"unloadable", "nokey", "haskey"}
  /\ environ \in SUBSET {"OPENAI_API_KEY"}
  /\ outfile \in {NoFile, OldFile}
  /\ hadFile = (outfile # NoFile)
  /\ nread = 0
  /\ lines = [s \in Sources |-> <<>>]
  /\ df_combined = <<>>
  /\ embedding_results = <<>>

\* ----------------------------------------------------------------- actions
Abort(e) == pc' = "aborted" /\ err' = e

\* goats_lines = read_file('docs/goats.txt') ... (one call per source, in order)
ReadFile ==
  /\ pc = "read"
  /\ nread < Len(SourceOrder)
  /\ LET s == SourceOrder[nread + 1]
         r == read_file(s, docs, readable)
     IN IF r.ok
        THEN /\ lines' = [lines EXCEPT ![s] = r.lines]
             /\ nread' = nread + 1
             /\ pc' = IF nread + 1 = Len(SourceOrder) THEN "concat" ELSE "read"
             /\ err' = err
        ELSE /\ Abort("OSError")
             /\ UNCHANGED <<lines, nread>>
  /\ UNCHANGED <<hadFile, docs, readable, dotenv, environ, df_combined, text_list, idx,
                 text, done, embedding_list, embedding_results, outfile, calls,
                 attempts, fails, waits, delay, lastCall, svcLog, writes>>

\* df_combined = pd.concat([df_goats, df_gravity, df_blackholes, df_invasivegoats])
Assemble ==
  /\ pc = "concat"
  /\ df_combined' = Concat(lines, Len(SourceOrder))
  /\ pc' = "dotenv"
  /\ UNCHANGED <<hadFile, err, docs, readable, dotenv, environ, nread, lines, text_list,
                 idx, text, done, embedding_list, embedding_results, outfile,
                 calls, attempts, fails, waits, delay, lastCall, svcLog, writes>>

\* if not load_dotenv('.env', override=True): raise Exception(...)
LoadDotenv ==
  /\ pc = "dotenv"
  /\ environ' = environ \cup DotenvVars(dotenv)
  /\ IF load_dotenv(dotenv)
     THEN pc' = "envcheck" /\ err' = err
     ELSE Abort("Exception: Couldn't load .env file")
  /\ UNCHANGED <<hadFile, docs, readable, dotenv, nread, lines, df_combined, text_list,
                 idx, text, done, embedding_list, embedding_results, outfile,
                 calls, attempts, fails, waits, delay, lastCall, svcLog, writes>>

\* if missing: raise EnvironmentError(...); otherwise get_embeddings is entered
\* with df_combined['text'] and embedding_list = []
CheckEnv ==
  /\ pc = "envcheck"
  /\ IF Missing(environ) # <<>>
     THEN /\ Abort("EnvironmentError")
          /\ UNCHANGED <<text_list, embedding_list>>
     ELSE /\ pc' = "for"
          /\ err' = err
          /\ text_list' = TextColumn(df_combined)
          /\ embedding_list' = <<>>
  /\ UNCHANGED <<hadFile, docs, readable, dotenv, environ, nread, lines, df_combined,
                 idx, text, done, embedding_results, outfile, calls, attempts,
                 fails, waits, delay, lastCall, svcLog, writes>>

\* for text in text_list: done = False
ForNext ==
  /\ pc = "for"
  /\ idx < Len(text_list)
  /\ idx' = NextPosition(idx)
  /\ text' = text_list[idx']
  /\ done' = FALSE
  /\ pc' = WhileTest(done')
  /\ attempts' = 0
  /\ fails' = 0
  /\ waits' = 0
  /\ UNCHANGED <<hadFile, err, docs, readable, dotenv, environ, nread, lines, df_combined,
                 text_list, embedding_list, embedding_results, outfile, calls,
                 delay, lastCall, svcLog, writes>>

\* return embedding_list; embedding_results = get_embeddings(...)
Return ==
  /\ pc = "for"
  /\ idx >= Len(text_list)
  /\ embedding_results' = embedding_list
  /\ pc' = "merge"
  /\ UNCHANGED <<hadFile, err, docs, readable, dotenv, environ, nread, lines, df_combined,
                 text_list, idx, text, done, embedding_list, outfile, calls,
                 attempts, fails, waits, delay, lastCall, svcLog, writes>>

\* The try block succeeds: the service answers with vector vec, which is
\* appended, and done = True.
CreateOk(vec) ==
  /\ pc = "call"
  /\ embedding_list' = AppendEmbedding(embedding_list, vec)
  /\ done' = TRUE
  /\ pc' = WhileTest(done')
  /\ calls' = Sat(calls, MaxCalls)
  /\ attempts' = Sat(attempts, MaxFails + 1)
  /\ delay' = 0
  /\ lastCall' = [idx |-> idx, text |-> text, outcome |-> "ok", vec |-> vec]
  /\ svcLog' = [k \in (DOMAIN svcLog) \cup {idx} |->
                  IF k = idx THEN [text |-> text, vec |-> vec] ELSE svcLog[k]]
  /\ UNCHANGED <<hadFile, err, docs, readable, dotenv, environ, nread, lines, df_combined,
                 text_list, idx, text, embedding_results, outfile, fails, waits,
                 writes>>

\* The try block fails: openai.Embedding.create raises ("raised"), or it
\* returns a response from which ['data'][0]['embedding'] cannot be taken
\* ("malformed"). Either way the except clause is entered.
CreateFails(how) ==
  /\ pc = "call"
  /\ done' = DoneAfterException(done)
  /\ IF Caught(how) THEN pc' = "except" /\ err' = err ELSE Abort(how)
  /\ calls' = Sat(calls, MaxCalls)
  /\ attempts' = Sat(attempts, MaxFails + 1)
  /\ fails' = Sat(fails, MaxFails)
  /\ delay' = 0
  /\ lastCall' = [idx |-> idx, text |-> text, outcome |-> how, vec |-> "none"]
  /\ embedding_list' = ListAfterFailure(embedding_list, how)
  /\ UNCHANGED <<hadFile, docs, readable, dotenv, environ, nread, lines, df_combined,
                 text_list, idx, text, embedding_results, outfile, waits, svcLog,
                 writes>>

\* print(...); time.sleep(5); then the while condition is tested again
Sleep ==
  /\ pc = "except"
  /\ delay' = delay + SleepSeconds(fails)
  /\ waits' = Sat(waits, MaxFails)
  /\ pc' = WhileTest(done)
  /\ UNCHANGED <<hadFile, err, docs, readable, dotenv, environ, nread, lines, df_combined,
                 text_list, idx, text, done, embedding_list, embedding_results,
                 outfile, calls, attempts, fails, lastCall, svcLog, writes>>

\* df_combined['openaiEmbeddings'] = embedding_results
Merge ==
  /\ pc = "merge"
  /\ LET r == SetColumn(df_combined, embedding_results)
     IN IF r.ok
        THEN df_combined' = r.df /\ pc' = "groupby" /\ err' = err
        ELSE df_combined' = df_combined /\ Abort("ValueError")
  /\ UNCHANGED <<hadFile, docs, readable, dotenv, environ, nread, lines, text_list, idx,
                 text, done, embedding_list, embedding_results, outfile, calls,
                 attempts, fails, waits, delay, lastCall, svcLog, writes>>

\* print(df_combined.groupby('type').count())
GroupBy ==
  /\ pc = "groupby"
  /\ pc' = "pickle"
  /\ UNCHANGED <<hadFile, err, docs, readable, dotenv, environ, nread, lines, df_combined,
                 text_list, idx, text, done, embedding_list, embedding_results,
                 outfile, calls, attempts, fails, waits, delay, lastCall, svcLog,
                 writes>>

\* Mutant: the save cell also runs when get_embeddings has just returned,
\* before the merge.
PickleBeforeMerge ==
  /\ pc \in {"merge", "pickle"}
  /\ outfile' = to_pickle(df_combined, outfile)
  /\ writes' = writes + 1
  /\ pc' = "done"
  /\ UNCHANGED <<hadFile, err, docs, readable, dotenv, environ, nread, lines, df_combined,
                 text_list, idx, text, done, embedding_list, embedding_results,
                 calls, attempts, fails, waits, delay, lastCall, svcLog>>

\* df_combined.to_pickle('data/text.pkl')
Pickle ==
  /\ pc = "pickle"
  /\ outfile' = to_pickle(df_combined, outfile)
  /\ writes' = writes + 1
  /\ pc' = "done"
  /\ UNCHANGED <<hadFile, err, docs, readable, dotenv, environ, nread, lines, df_combined,
                 text_list, idx, text, done, embedding_list, embedding_results,
                 calls, attempts, fails, waits, delay, lastCall, svcLog>>

CallSucceeds == \E vec \in Vectors : CreateOk(vec)
CallFails == \E how \in {"raised", "malformed"} : CreateFails(how)

Next ==
  \/ ReadFile
  \/ Assemble
  \/ LoadDotenv
  \/ CheckEnv
  \/ ForNext
  \/ Return
  \/ CallSucceeds
  \/ CallFails
  \/ Sleep
  \/ Merge
  \/ GroupBy
  \/ Pickle

Spec == Init /\ [][Next]_vars

\* The interpreter keeps executing, and every text's call eventually succeeds.
FairSpec == Spec /\ WF_vars(Next) /\ SF_vars(CallSucceeds)

\* The merge statement on its own: df_combined is any assembled frame and
\* embedding_results any list of vectors, of equal length or not.
InitBuilder ==
  /\ pc = "merge"
  /\ err = "none"
  /\ docs \in InputDocs
  /\ readable = [s \in Sources |-> TRUE]
  /\ dotenv = "haskey"
  /\ environ = {"OPENAI_API_KEY"}
  /\ outfile \in {NoFile, OldFile}
  /\ hadFile = (outfile # NoFile)
  /\ nread = Len(SourceOrder)
  /\ lines = docs
  /\ df_combined = Concat(lines, Len(SourceOrder))
  /\ text_list = TextColumn(df_combined)
  /\ embedding_results \in SeqsUpTo(Vectors, MaxRecords)
  /\ embedding_list = embedding_results
  /\ idx = Len(text_list)
  /\ text = "none"
  /\ done = TRUE
  /\ calls = 0
  /\ attempts = 0
  /\ fails = 0
  /\ waits = 0
  /\ delay = 0
  /\ lastCall = NoCall
  /\ svcLog = <<>>
  /\ writes = 0

NextBuilder ==
  \/ Merge
  \/ GroupBy
  \/ Pickle

BuilderSpec == InitBuilder /\ [][NextBuilder]_vars

\* ------------------------------------------------------------------ claims
Returned == pc \in {"merge", "groupby", "pickle", "done"}
InLoop == pc \in {"call", "except"}
Failures == {"raised", "malformed"}
\* A step that makes one service call.
ServiceCallStep == pc = "call" /\ pc' # "call"

\* C1: whenever get_embeddings has returned, the returned sequence is as long
\* as the input, and its i-th vector is the one the service returned for the
\* text at input position i.
C1_SameLengthAndOrder ==
  Returned =>
    /\ Len(embedding_results) = Len(text_list)
    /\ DOMAIN svcLog = 1..Len(text_list)
    /\ \A i \in 1..Len(text_list) :
         /\ svcLog[i].text = text_list[i]
         /\ embedding_results[i] = svcLog[i].vec

\* Two equal texts got different vectors, and some call had failed.
C1_Witness ==
  /\ pc = "merge"
  /\ Len(text_list) = 2
  /\ text_list[1] = text_list[2]
  /\ embedding_results[1] # embedding_results[2]
  /\ calls >= 3

\* The number of texts whose retry loop has completed.
Completed == IF idx = 0 THEN 0 ELSE IF done THEN idx ELSE idx - 1

\* C2: inside get_embeddings the number of captured vectors equals the number
\* of records whose retry loop has completed, every completed record has
\* exactly one successful call (its own vector, at its own position), and a
\* record whose call has succeeded is never submitted again.
C2_OneVectorPerRecord ==
  (pc \in {"for", "call", "except"}) =>
    /\ Len(embedding_list) = Completed
    /\ DOMAIN svcLog = 1..Completed
    /\ \A i \in 1..Completed : embedding_list[i] = svcLog[i].vec
    /\ (InLoop => idx \notin DOMAIN svcLog)

\* The first record is complete after a failed attempt, the second is being retried.
C2_Witness ==
  /\ pc = "except"
  /\ idx = 2
  /\ Len(embedding_list) = 1
  /\ calls >= 3

\* C3: a failed attempt does not advance: the except clause is followed by
\* the 5 second sleep, and the next service call carries the same record.
C3_FailureStep ==
  (pc = "call" /\ pc' # "call" /\ lastCall'.outcome \in Failures) =>
    pc' = "except" /\ idx' = idx /\ text' = text
C3_HandlerStep ==
  (pc = "except") =>
    pc' = "call" /\ idx' = idx /\ text' = text /\ delay' = 5
C3_NextCallStep ==
  (ServiceCallStep /\ lastCall.outcome \in Failures) =>
    /\ delay = 5
    /\ lastCall'.idx = lastCall.idx
    /\ lastCall'.text = lastCall.text
    /\ lastCall'.text = text_list[lastCall.idx]
C3_RetrySameRecord ==
  [][C3_FailureStep /\ C3_HandlerStep /\ C3_NextCallStep]_vars

\* The second record is resubmitted after a malformed response and the sleep.
C3_Witness ==
  /\ pc = "call"
  /\ idx = 2
  /\ lastCall = [idx |-> 2, text |-> text_list[2], outcome |-> "malformed", vec |-> "none"]
  /\ delay = 5

\* C4: a record whose call fails k times and then succeeds has had k + 1
\* calls, the captured vector is the one of the last call, and no call is
\* made for a record that is done. (The counters are exact below MaxFails.)
C4_RetryTermination ==
  /\ (pc = "call" => ~done)
  /\ (InLoop /\ fails < MaxFails => attempts = fails)
  /\ (pc = "for" /\ idx >= 1 =>
        /\ done
        /\ (fails < MaxFails => attempts = fails + 1)
        /\ lastCall.idx = idx
        /\ lastCall.outcome = "ok"
        /\ Len(embedding_list) = idx
        /\ embedding_list[idx] = lastCall.vec)

\* k = MaxFails - 1 failures, then the success.
C4_Witness ==
  /\ pc = "for"
  /\ done
  /\ fails = MaxFails - 1
  /\ attempts = MaxFails
  /\ idx = 2

\* No credential: .env does not load, or OPENAI_API_KEY is neither in .env
\* nor already in the environment.
NoCredential ==
  \/ dotenv = "unloadable"
  \/ (dotenv # "haskey" /\ "OPENAI_API_KEY" \notin environ)

\* C5: without a credential no service call is ever made, get_embeddings is
\* never entered and data/text.pkl is never written.
C5_FatalOnMissingConfig ==
  NoCredential =>
    /\ calls = 0
    /\ lastCall = NoCall
    /\ writes = 0
    /\ outfile \in {NoFile, OldFile}
    /\ pc \in {"read", "concat", "dotenv", "envcheck", "aborted"}

\* .env loads but the key is nowhere: the run has stopped at the check.
C5_Witness ==
  /\ NoCredential
  /\ dotenv = "nokey"
  /\ pc = "aborted"
  /\ err = "EnvironmentError"
  /\ Len(df_combined) = 2
  /\ calls = 0

\* C6: a failed attempt never stops the run with an error; the retry does not
\* depend on the number of attempts; get_embeddings returns, and the file is
\* written, only if every record has had a successful call.
C6_FailureNeverAborts ==
  (InLoop => pc' \in {"call", "except", "for"} /\ err' = "none")
C6_AlwaysRetries ==
  (pc = "except" => pc' = "call" /\ idx' = idx /\ text' = text /\ ~done')
C6_NoReturnWithoutSuccess ==
  (Returned \/ writes > 0 \/ outfile \notin {NoFile, OldFile}) =>
    \A i \in 1..Len(text_list) : i \in DOMAIN svcLog
C6_StallsOnServiceErrors ==
  /\ [][C6_FailureNeverAborts /\ C6_AlwaysRetries]_vars
  /\ [](InLoop => err = "none" /\ writes = 0 /\ outfile \in {NoFile, OldFile})
  /\ []C6_NoReturnWithoutSuccess

\* More than MaxFails attempts have failed and the same record is about to
\* be submitted again.
C6_Witness ==
  /\ pc = "call"
  /\ attempts = MaxFails + 1
  /\ fails = MaxFails
  /\ idx = 1
  /\ embedding_list = <<>>
  /\ err = "none"

\* C7: if every record's call eventually succeeds, get_embeddings returns
\* and the Dataset is written; the retry loop is left only by a success.
C7_LoopExit ==
  (InLoop /\ pc' \notin {"call", "except"}) =>
    /\ pc = "call"
    /\ pc' = "for"
    /\ done'
    /\ lastCall'.outcome = "ok"
    /\ lastCall'.idx = idx
C7_EventualCompletion ==
  /\ (pc = "for") ~> Returned
  /\ (pc = "for") ~> (pc = "done" /\ writes = 1 /\ read_pickle(outfile) = df_combined)
  /\ [][C7_LoopExit]_vars

\* The run is complete although calls had failed.
C7_Witness ==
  /\ pc = "done"
  /\ writes = 1
  /\ Len(text_list) = 2
  /\ calls >= 3
  /\ read_pickle(outfile) = df_combined

\* The records the four files hold: line j of the k-th source is at
\* position (lines of the sources before it) + j.
ExpectedAt(k, j) == TotalLines(docs, k - 1) + j
RecordsAsLoaded(df) ==
  /\ Len(df) = TotalLines(docs, Len(SourceOrder))
  /\ \A k \in 1..Len(SourceOrder) :
       \A j \in 1..Len(docs[SourceOrder[k]]) :
         /\ df[ExpectedAt(k, j)].type = SourceOrder[k]
         /\ df[ExpectedAt(k, j)].text = docs[SourceOrder[k]][j]
Assembled == nread = Len(SourceOrder) /\ pc \notin {"read", "concat"}
Merged == pc \in {"groupby", "pickle", "done"}

\* C8: in the final Dataset the records, the vectors and the rows have the
\* same length, and row i holds record i's text and label and vector i.
C8_LengthAndOrder ==
  Merged =>
    /\ Len(df_combined) = Len(text_list)
    /\ Len(df_combined) = Len(embedding_results)
    /\ RecordsAsLoaded(df_combined)
    /\ \A i \in 1..Len(df_combined) :
         /\ df_combined[i].text = text_list[i]
         /\ df_combined[i].openaiEmbeddings = embedding_results[i]
         /\ df_combined[i].openaiEmbeddings = svcLog[i].vec

\* Two records of different sources with different vectors have been merged.
C8_Witness ==
  /\ pc = "done"
  /\ Len(df_combined) = 2
  /\ df_combined[1].type # df_combined[2].type
  /\ df_combined[1].openaiEmbeddings = "v2"
  /\ df_combined[2].openaiEmbeddings = "v1"
  /\ read_pickle(outfile) = df_combined

\* C9: the assembled records are the files' lines in source order and line
\* order, nothing dropped or merged, and keep label and text to the end.
C9_ConcatenationOrder ==
  Assembled =>
    /\ RecordsAsLoaded(df_combined)
    /\ (pc \in {"for", "call", "except"} \/ Returned =>
          text_list = [i \in 1..Len(df_combined) |-> df_combined[i].text])
    /\ (pc = "done" => RecordsAsLoaded(read_pickle(outfile)))

\* A later source's line equal to an earlier source's line: both are kept,
\* in source order.
C9_Witness ==
  /\ pc = "dotenv"
  /\ Len(df_combined) = 2
  /\ df_combined[1] = [type |-> "gravity", text |-> "t2", openaiEmbeddings |-> NoCol]
  /\ df_combined[2] = [type |-> "invasivegoats", text |-> "t2", openaiEmbeddings |-> NoCol]

SomeFileUnreadable == \E s \in Sources : ~readable[s]
C11_NoPartialCorpus ==
  SomeFileUnreadable =>
    /\ pc \in {"read", "aborted"}
    /\ (pc = "aborted" => err = "OSError" /\ ~readable[SourceOrder[nread + 1]])
    /\ nread < Len(SourceOrder)
    /\ df_combined = <<>>
    /\ text_list = <<>>
    /\ embedding_list = <<>>
    /\ calls = 0
    /\ lastCall = NoCall
    /\ writes = 0
    /\ outfile \in {NoFile, OldFile}

\* The first file was read, with lines in it; the second cannot be read.
C11_Witness ==
  /\ pc = "aborted"
  /\ err = "OSError"
  /\ nread = 1
  /\ Len(lines["goats"]) = 1
  /\ Len(docs["blackholes"]) = 1
  /\ ~readable["gravity"]
  /\ readable["blackholes"]
  /\ dotenv = "haskey"

\* C12: data/text.pkl is written at most once, by the last statement of a
\* run in which every record has its vector and the merge has succeeded; a
\* run that has stopped with an error, or is inside the retry loop, has
\* written nothing.
C12_WriteStep ==
  (writes' # writes \/ outfile' # outfile) =>
    /\ pc = "pickle"
    /\ pc' = "done"
    /\ writes = 0
    /\ writes' = 1
    /\ err = "none"
    /\ Len(df_combined) = Len(text_list)
    /\ \A i \in 1..Len(text_list) :
         /\ i \in DOMAIN svcLog
         /\ df_combined[i].openaiEmbeddings = svcLog[i].vec
C12_WrittenOnceAtEnd ==
  /\ [][C12_WriteStep]_vars
  /\ [](writes \in {0, 1})
  /\ [](writes = 1 <=> pc = "done")
  /\ [](writes = 0 <=> outfile \in {NoFile, OldFile})
  /\ [](pc = "aborted" \/ InLoop => writes = 0 /\ outfile \in {NoFile, OldFile})

\* The file of an earlier run has been replaced at the end of a run with
\* two records, one of which needed a retry.
C12_Witness ==
  /\ pc = "done"
  /\ writes = 1
  /\ outfile \notin {NoFile, OldFile}
  /\ Len(text_list) = 2
  /\ calls >= 3

\* C13: service calls are made one record at a time in assembler order: a
\* call carries the text of exactly one record, the one at the loop's
\* position; the position of successive calls never decreases and grows by
\* at most one; and a record is first called only when every record before
\* it has had its successful call. (A call is one blocking step of the
\* single thread, so no two calls overlap.)
C13_CallStep ==
  ServiceCallStep =>
    /\ lastCall'.idx = idx
    /\ lastCall'.idx \in 1..Len(text_list)
    /\ lastCall'.text = text_list[idx]
    /\ lastCall'.text \in Texts
    /\ lastCall'.idx >= lastCall.idx
    /\ lastCall'.idx <= lastCall.idx + 1
    /\ (lastCall'.idx = lastCall.idx + 1 =>
          lastCall.idx = 0 \/ lastCall.outcome = "ok")
    /\ \A j \in 1..(idx - 1) : j \in DOMAIN svcLog
    /\ idx \notin DOMAIN svcLog
C13_OneRecordAtATimeInOrder ==
  /\ [][C13_CallStep]_vars
  /\ [][lastCall' # lastCall => ServiceCallStep]_vars
  /\ [](lastCall.idx <= idx /\ (InLoop => lastCall.idx \in {idx - 1, idx}))

\* The second record is about to be called for the first time, right after
\* the first record's call succeeded on a retry.
C13_Witness ==
  /\ pc = "call"
  /\ idx = 2
  /\ attempts = 0
  /\ lastCall.idx = 1
  /\ lastCall.outcome = "ok"
  /\ calls = 2
  /\ text_list[1] # text_list[2]

\* C14: after a successful run, grouping the Dataset by source label gives
\* one group per source that has lines, and in each group the number of
\* texts and the number of vectors both equal that source's line count; the
\* counts add up to the number of records, whatever the files' line counts.
NonEmptySources == {s \in Sources : Len(docs[s]) > 0}
RECURSIVE SumText(_, _)
SumText(counts, keys) ==
  IF keys = {} THEN 0
  ELSE LET g == CHOOSE x \in keys : TRUE
       IN counts[g].text + SumText(counts, keys \ {g})
C16_FailedStep ==
  (ServiceCallStep /\ lastCall'.outcome \in Failures) =>
    /\ embedding_list' = embedding_list
    /\ idx' = idx
    /\ text' = text
    /\ done' = done
    /\ text_list' = text_list
    /\ df_combined' = df_combined
    /\ svcLog' = svcLog
    /\ outfile' = outfile
    /\ err' = err
C16_HandlerFrame ==
  (pc = "except") =>
    /\ embedding_list' = embedding_list
    /\ idx' = idx
    /\ text_list' = text_list
    /\ df_combined' = df_combined
C16_AppendOnly ==
  \/ embedding_list' = embedding_list
  \/ /\ ServiceCallStep
     /\ lastCall'.outcome = "ok"
     /\ embedding_list' = Append(embedding_list, lastCall'.vec)
C16_FailureChangesNothing ==
  [][C16_FailedStep /\ C16_HandlerFrame /\ C16_AppendOnly]_vars

\* A response that could not be unpacked for the second record: the first
\* record's vector is all that is captured.
C16_Witness ==
  /\ pc = "except"
  /\ lastCall.outcome = "malformed"
  /\ lastCall.idx = 2
  /\ idx = 2
  /\ Len(embedding_list) = 1
  /\ embedding_list[1] = svcLog[1].vec

\* C17: the 5 second wait happens once after each failed attempt and never
\* after a successful one: at every service call and at every loop exit the
\* number of waits equals the number of failed attempts, in the except
\* clause the wait for the last failure is the one still to come, every wait
\* is 5 seconds whatever the attempt, and a record that succeeds on its first
\* attempt has no wait. (The counters are exact below MaxFails.)
C17_Counts ==
  /\ (pc \in {"call", "for"} => waits = fails)
  /\ (pc = "except" => fails = Sat(waits, MaxFails))
  /\ (pc = "except" => delay = 0)
  /\ (pc = "call" => delay = IF fails = 0 THEN 0 ELSE 5)
  /\ (pc = "for" /\ done /\ attempts = 1 => fails = 0 /\ waits = 0 /\ delay = 0)
  /\ (lastCall.outcome = "ok" => delay = 0)
C17_WaitStep ==
  (delay' # delay \/ waits' # waits) =>
    \/ /\ pc = "except"
       /\ lastCall.outcome \in Failures
       /\ delay' = delay + 5
       /\ lastCall' = lastCall
    \/ /\ ServiceCallStep
       /\ delay' = 0
       /\ waits' = waits
    \/ /\ pc = "for"
       /\ waits' = 0
       /\ delay' = delay
C17_OneFixedWaitPerFailure ==
  /\ []C17_Counts
  /\ [][C17_WaitStep]_vars
  /\ [][pc = "except" => delay' = 5 /\ waits' = Sat(waits, MaxFails)]_vars

\* The second wait for a record is over: two failures, two waits, and the
\* wait was 5 seconds again.
C17_Witness ==
  /\ pc = "call"
  /\ fails = 2
  /\ waits = 2
  /\ attempts = 2
  /\ delay = 5

====
